---- MODULE Spec2Model ----
(***************************************************************************)
(* Three Minds: the turn-taking consensus loop of Council.run, its vote    *)
(* extraction (parseConsensus) and its prompt/history construction         *)
(* (buildAgentPrompt).                                                     *)
(*                                                                         *)
(* Texts (agent output, task text) are sequences of tokens.  A token is a  *)
(* string that the vote-marker pattern /\[CONSENSUS:\s*(YES|NO)\]/i treats *)
(* as a unit: the label "[CONSENSUS:", a whitespace run, a YES/NO word,    *)
(* the closing "]", or any other piece of text.                            *)
(***************************************************************************)
EXTENDS Integers, Sequences, FiniteSets, TLC

VARIABLES
    variant,        \* which Council of the repository runs (see Variants)
    agents,         \* config.agents, the roster
    maxRounds,      \* config.maxRounds
    task,           \* the argument of Council.run
    pc,             \* position of Council.run
    sessionExists,  \* the session object has been created
    sessionTask,    \* session.task
    responses,      \* session.responses, the record log
    status,         \* session.status
    endTimeSet,     \* session.endTime is set
    round,          \* the for-loop's round counter
    idx,            \* position in the roster of the agent being processed
    roundVotes,     \* the current round's votes
    inflight,       \* agent processes spawned and not yet reaped
    prompt,         \* the prompt built for the agent being processed
    calls,          \* number of agent invocations started
    lastResult,     \* what spawnSync handed back for the latest finished invocation
    roundsRun,      \* number of rounds whose body was entered
    finalSummary,   \* session.finalSummary
    transcripts,    \* the transcript files written, in order
    text,           \* input of the pure text functions (SpecText)
    parsed,         \* result of parseConsensus on text (SpecText)
    timeoutMs,      \* config.timeoutMs, possibly absent
    projectDir,     \* config.projectDir, the working directory
    invocations,    \* the agent processes spawned so far: command and timeout
    rendered,       \* the text displayed for a record in a history (SpecHistory, SpecPreview)
    sel,            \* backend selection for one model identifier (SpecBackend)
    skill,          \* one call of runViaClaudeCodeSkill (SpecSkill)
    cli,            \* the command-line entry point (SpecCli)
    twin            \* two runs with one script of agent outcomes (SpecTwin)

vars == <<variant, agents, maxRounds, task, pc, sessionExists, sessionTask,
          responses, status, endTimeSet, round, idx, roundVotes, inflight,
          prompt, calls, lastResult, roundsRun, finalSummary, transcripts, text, parsed,
          timeoutMs, projectDir, invocations, rendered, sel, skill, cli, twin>>

\* what the steps of Council.run leave alone besides the roster and the round
\* limit: the rest of the configuration and the variables of the other
\* specifications
otherVars == <<timeoutMs, projectDir, rendered, sel, skill, cli, twin>>

\* the variables of Council.run and of the Council's configuration
runVars == <<variant, agents, maxRounds, task, pc, sessionExists, sessionTask,
             responses, status, endTimeSet, round, idx, roundVotes, inflight,
             prompt, calls, lastResult, roundsRun, finalSummary, transcripts>>

-----------------------------------------------------------------------------
(* Bounds of the model *)

MaxAgents == 3
MaxRoundsBound == 3
\* a run makes at most rosterSize * maxRounds agent calls; configurations are
\* drawn with that product at most MaxCalls
MaxCalls == 6
\* the same product for the runs checked for termination under fairness
MaxFairCalls == 4
MaxTextLen == 7
\* number of tokens of the texts whose preview is computed
MaxPreviewLen == 5

(* Program constants *)

MIN_TASK_LENGTH == 5
DEFAULT_TIMEOUT_MS == 300000
PREVIEW_LENGTH == 800
SUMMARY_PREVIEW_LENGTH == 400

-----------------------------------------------------------------------------
(* Tokens and the vote-marker pattern *)

Whitespace == {" ", "\n"}

\* String.prototype.toUpperCase on the tokens the pattern looks at
toUpperCase(tok) ==
    CASE tok = "[consensus:" -> "[CONSENSUS:"
      [] tok = "yes" -> "YES"
      [] tok = "no" -> "NO"
      [] OTHER -> tok

\* \s* : the index of the first token at or after j that is not whitespace
RECURSIVE SkipWhitespace(_, _)
SkipWhitespace(content, j) ==
    IF j <= Len(content) /\ content[j] \in Whitespace
    THEN SkipWhitespace(content, j + 1)
    ELSE j

\* the pattern /\[CONSENSUS:\s*(YES|NO)\]/i anchored at token i:
\* 0 when it does not match there, else the index of the closing "]"
MatchEnd(content, i) ==
    IF i > Len(content) \/ toUpperCase(content[i]) # "[CONSENSUS:"
    THEN 0
    ELSE LET j == SkipWhitespace(content, i + 1)
         IN  IF /\ j + 1 <= Len(content)
                /\ toUpperCase(content[j]) \in {"YES", "NO"}
                /\ content[j + 1] = "]"
             THEN j + 1
             ELSE 0

\* the capture group (YES|NO) of a match anchored at i
MatchGroup(content, i) == content[SkipWhitespace(content, i + 1)]

\* content.match(pattern): the leftmost position where the pattern matches, 0 if none
RECURSIVE FirstMatch(_, _)
FirstMatch(content, i) ==
    IF i > Len(content) THEN 0
    ELSE IF MatchEnd(content, i) > 0 THEN i
    ELSE FirstMatch(content, i + 1)

\* faulty variant: the rightmost match instead of the leftmost
RECURSIVE LastMatchFrom(_, _)
LastMatchFrom(content, i) ==
    IF i < 1 THEN 0
    ELSE IF MatchEnd(content, i) > 0 THEN i
    ELSE LastMatchFrom(content, i - 1)

parseConsensusLast(content) ==
    LET m == LastMatchFrom(content, Len(content))
    IN  IF m > 0 THEN toUpperCase(MatchGroup(content, m)) = "YES" ELSE FALSE

\* faulty variant: fail-open, a text without a marker counts as YES
parseConsensusFailOpen(content) ==
    LET m == FirstMatch(content, 1)
    IN  IF m > 0 THEN toUpperCase(MatchGroup(content, m)) = "YES" ELSE TRUE

parseConsensus(content) ==
    LET m == FirstMatch(content, 1)
    IN  IF m > 0 THEN toUpperCase(MatchGroup(content, m)) = "YES" ELSE FALSE

\* content.replace(pattern with flag g, ''): every match removed, left to right
RECURSIVE replaceMarkers(_, _)
replaceMarkers(content, i) ==
    IF i > Len(content) THEN <<>>
    ELSE IF MatchEnd(content, i) > 0 THEN replaceMarkers(content, MatchEnd(content, i) + 1)
    ELSE <<content[i]>> \o replaceMarkers(content, i + 1)

RECURSIVE trimStart(_)
trimStart(s) ==
    IF Len(s) > 0 /\ s[1] \in Whitespace THEN trimStart(Tail(s)) ELSE s

RECURSIVE trimEnd(_)
trimEnd(s) ==
    IF Len(s) > 0 /\ s[Len(s)] \in Whitespace THEN trimEnd(SubSeq(s, 1, Len(s) - 1)) ELSE s

\* String.prototype.trim
trim(s) == trimEnd(trimStart(s))

-----------------------------------------------------------------------------
(* Configuration: roster, round limit, task *)

\* the two Council classes of the repository that differ in entry validation:
\* src/src/council.ts creates the session at once, the multi-CLI Council
\* (and the later ones) validates the task first
Variants == {"council.ts", "multi-cli"}

NamePool == <<"Architect", "Engineer", "Reviewer", "Tester", "Auditor">>
EmojiPool == <<"A", "E", "R", "T", "U">>
\* model identifiers; "" stands for an absent model
ModelPool == <<"", "Gemini-pro", "gpt-4o", "llama", "claude-opus">>

AgentAt(i) ==
    [name |-> NamePool[i], emoji |-> EmojiPool[i],
     persona |-> <<"persona of ", NamePool[i]>>, model |-> ModelPool[i]]

\* a roster in which two agents share a name (names are never validated)
DupRoster == <<AgentAt(1), [AgentAt(2) EXCEPT !.name = NamePool[1]]>>

\* a "model" value of the configuration file that is not a string, e.g. 42
NonStringModel == "42 (a number)"

\* a roster whose second agent has such a model (the file is only JSON.parsed)
BadModelRoster == <<AgentAt(1), [AgentAt(2) EXCEPT !.model = NonStringModel]>>

Rosters ==
    {[i \in 1..k |-> AgentAt(i)] : k \in 0..MaxAgents} \cup {DupRoster, BadModelRoster}

\* task texts, one character per element
Tasks ==
    { <<>>,
      <<" ", " ", "f", "i", "x", " ", " ">>,
      <<" ", "f", "i", "x", " ", "i", "t", " ">> }

-----------------------------------------------------------------------------
(* The agent invoker *)

TextYes == <<"done", "\n", "[CONSENSUS:", " ", "YES", "]">>
TextNo == <<"more work", "\n", "[consensus:", "no", "]">>
TextNone == <<"I think we are done">>

\* what spawnSync can hand back: error is "none" or the message of result.error
SpawnResults ==
    { [error |-> "none", status |-> 0, stdout |-> TextYes],
      [error |-> "none", status |-> 0, stdout |-> TextNo],
      [error |-> "none", status |-> 1, stdout |-> TextNone],
      [error |-> "none", status |-> 1, stdout |-> TextYes],
      [error |-> "spawnSync claude ETIMEDOUT", status |-> -1, stdout |-> <<>>] }

NoResult == [error |-> "none", status |-> 0, stdout |-> <<>>]

\* faulty variant: a non-zero exit status throws as well
spawnCliThrowsOnBadExit(result) == result.error # "none" \/ result.status # 0

\* spawnCli: throws result.error when it is set, else returns stdout
spawnCliThrows(result) == result.error # "none"

spawnCliOutput(result) == result.stdout

\* String.prototype.startsWith
startsWith(m, prefix) == Len(m) >= Len(prefix) /\ SubSeq(m, 1, Len(prefix)) = prefix

UpperLetters == "ABCDEFGHIJKLMNOPQRSTUVWXYZ"
LowerLetters == "abcdefghijklmnopqrstuvwxyz"

\* the lower-case letter of every upper-case letter
LowerOf ==
    [c \in {SubSeq(UpperLetters, i, i) : i \in 1..26} |->
        LET i == CHOOSE i \in 1..26 : SubSeq(UpperLetters, i, i) = c
        IN  SubSeq(LowerLetters, i, i)]

\* the lower-case form of one character
lowerChar(c) == IF c \in DOMAIN LowerOf THEN LowerOf[c] ELSE c

RECURSIVE toLowerCaseFrom(_, _)
toLowerCaseFrom(str, k) ==
    IF k > Len(str) THEN ""
    ELSE lowerChar(SubSeq(str, k, k)) \o toLowerCaseFrom(str, k + 1)

\* String.prototype.toLowerCase
toLowerCase(str) == toLowerCaseFrom(str, 1)

\* faulty variant: the prefixes are compared without lower-casing the model
getCliForModelCaseSensitive(model) ==
    IF model = "" THEN "claude"
    ELSE IF startsWith(model, "gemini-") \/ startsWith(model, "google/") THEN "gemini"
    ELSE IF startsWith(model, "gpt-") \/ startsWith(model, "o1") \/ startsWith(model, "o3")
            \/ startsWith(model, "o4") THEN "codex"
    ELSE IF startsWith(model, "azure/") THEN "codex"
    ELSE IF startsWith(model, "claude") \/ startsWith(model, "anthropic/") THEN "claude"
    ELSE "opencode"

getCliForModel(model) ==
    IF model = "" THEN "claude"
    ELSE LET m == CHOOSE l \in {toLowerCase(model)} : TRUE IN
         IF startsWith(m, "gemini-") \/ startsWith(m, "google/") THEN "gemini"
         ELSE IF startsWith(m, "gpt-") \/ startsWith(m, "o1") \/ startsWith(m, "o3")
                 \/ startsWith(m, "o4") THEN "codex"
         ELSE IF startsWith(m, "azure/") THEN "codex"
         ELSE IF startsWith(m, "claude") \/ startsWith(m, "anthropic/") THEN "claude"
         ELSE "opencode"

\* runAgent: the command of the run*Cli function the switch selects
runAgentCommand(cliName) ==
    CASE cliName = "gemini" -> "gemini"
      [] cliName = "codex" -> "codex"
      [] cliName = "opencode" -> "opencode"
      [] OTHER -> "claude"

\* model.toLowerCase() is a TypeError when model is truthy and not a string
getCliForModelThrows(model) == model = NonStringModel

\* the loop body before the per-agent try (cli selection, prompts) throws;
\* council.ts selects no cli
agentSetupThrows(v, agent) == v # "council.ts" /\ getCliForModelThrows(agent.model)

\* the cli that serves an agent: council.ts always runs claude
cliOf(v, agent) == IF v = "council.ts" THEN "claude" ELSE getCliForModel(agent.model)

\* the command spawned for an agent: council.ts runs claude, the multi-CLI
\* Council what runAgent selects
spawnedCommand(v, agent) ==
    IF v = "council.ts" THEN "claude" ELSE runAgentCommand(getCliForModel(agent.model))

\* the timeout handed to spawnSync: council.ts passes 300000, the multi-CLI
\* Council this.timeoutMs = config.timeoutMs || DEFAULT_TIMEOUT_MS
callTimeout(v, configured) ==
    IF v = "council.ts" THEN 300000
    ELSE IF configured.set /\ configured.ms # 0 THEN configured.ms
    ELSE DEFAULT_TIMEOUT_MS

-----------------------------------------------------------------------------
(* Prompt construction *)

\* the number of characters of the tokens k.. of s
RECURSIVE charLengthFrom(_, _)
charLengthFrom(s, k) ==
    IF k > Len(s) THEN 0 ELSE Len(s[k]) + charLengthFrom(s, k + 1)

\* s.length in characters
charLength(s) == charLengthFrom(s, 1)

\* the first n characters of the tokens k.. of s: whole tokens while they fit,
\* then the part of the next token that still fits
RECURSIVE sliceCharsFrom(_, _, _)
sliceCharsFrom(s, k, n) ==
    IF k > Len(s) \/ n <= 0 THEN <<>>
    ELSE IF Len(s[k]) > n THEN <<SubSeq(s[k], 1, n)>>
    ELSE <<s[k]>> \o sliceCharsFrom(s, k + 1, n - Len(s[k]))

\* s.slice(0, n) in characters
sliceChars(s, n) == sliceCharsFrom(s, 1, n)

cleanContent(content) == trim(replaceMarkers(content, 1))

\* faulty variant: a text of exactly the preview length is cut as well
previewInclusive(clean) ==
    CHOOSE p \in {IF charLength(c) >= PREVIEW_LENGTH
                  THEN sliceChars(c, PREVIEW_LENGTH) \o <<"...">>
                  ELSE c : c \in {clean}} : TRUE

\* cleanContent.length > 800 ? cleanContent.slice(0, 800) + '...' : cleanContent
\* (c is bound to the value of clean, which is thus computed once)
preview(clean) ==
    CHOOSE p \in {IF charLength(c) > PREVIEW_LENGTH
                  THEN sliceChars(c, PREVIEW_LENGTH) \o <<"...">>
                  ELSE c : c \in {clean}} : TRUE

\* faulty variant: the records of failed invocations are left out of the history
RECURSIVE buildHistorySkipFailed(_, _, _)
buildHistorySkipFailed(previousResponses, k, currentRound) ==
    IF k > Len(previousResponses) THEN <<>>
    ELSE LET resp == previousResponses[k]
             heading == IF resp.round # currentRound
                        THEN <<[kind |-> "round", round |-> resp.round]>>
                        ELSE <<>>
             entry == [kind |-> "entry", agent |-> resp.agent,
                       consensus |-> resp.consensus,
                       text |-> preview(cleanContent(resp.content))]
         IN  IF resp.sessionKey = <<>>
             THEN buildHistorySkipFailed(previousResponses, k + 1, currentRound)
             ELSE heading \o <<entry>>
                      \o buildHistorySkipFailed(previousResponses, k + 1, resp.round)

\* the history section: a heading when the round changes, then one entry per record
RECURSIVE buildHistory(_, _, _)
buildHistory(previousResponses, k, currentRound) ==
    IF k > Len(previousResponses) THEN <<>>
    ELSE LET resp == previousResponses[k]
             heading == IF resp.round # currentRound
                        THEN <<[kind |-> "round", round |-> resp.round]>>
                        ELSE <<>>
             entry == [kind |-> "entry", agent |-> resp.agent,
                       consensus |-> resp.consensus,
                       text |-> preview(cleanContent(resp.content))]
         IN  heading \o <<entry>> \o buildHistory(previousResponses, k + 1, resp.round)

otherAgents(agent, allAgents) == SelectSeq(allAgents, LAMBDA a : a.name # agent.name)

buildAgentPrompt(agent, t, r, previousResponses, allAgents) ==
    [round |-> r,
     task |-> t,
     partners |-> [i \in 1..Len(otherAgents(agent, allAgents)) |->
                     [emoji |-> otherAgents(agent, allAgents)[i].emoji,
                      name |-> otherAgents(agent, allAgents)[i].name]],
     history |-> buildHistory(previousResponses, 1, 0)]

\* faulty variant: the system prompt carries the persona of every roster member
buildSystemPromptShared(agent, allAgents) ==
    [emoji |-> agent.emoji, name |-> agent.name,
     persona |-> [i \in 1..Len(allAgents) |-> allAgents[i].persona]]

buildSystemPrompt(agent, allAgents) ==
    [emoji |-> agent.emoji, name |-> agent.name, persona |-> agent.persona]

NoPrompt ==
    [user |-> [round |-> 0, task |-> <<>>, partners |-> <<>>, history |-> <<>>],
     system |-> [emoji |-> "", name |-> "", persona |-> <<>>]]

-----------------------------------------------------------------------------
(* Summary and transcript *)

\* responses.length > 0 ? Math.max(...responses.map(r => r.round)) : 0
maxRoundOf(rs) ==
    IF rs = <<>> THEN 0
    ELSE CHOOSE m \in {rs[i].round : i \in 1..Len(rs)} :
            \A i \in 1..Len(rs) : rs[i].round <= m

\* agents.find(a => a.name === resp.agent)?.emoji || fallback
emojiOf(name, allAgents) ==
    LET found == SelectSeq(allAgents, LAMBDA a : a.name = name)
    IN  IF found = <<>> THEN "robot" ELSE found[1].emoji

\* cleanContent.slice(0, 400) + (cleanContent.length > 400 ? '...' : '')
summaryPreview(clean) ==
    CHOOSE p \in {sliceChars(c, SUMMARY_PREVIEW_LENGTH)
                    \o (IF charLength(c) > SUMMARY_PREVIEW_LENGTH THEN <<"...">> ELSE <<>>)
                  : c \in {clean}} : TRUE

generateSummary(st, rs, allAgents) ==
    LET maxRound == maxRoundOf(rs)
        lastResponses == SelectSeq(rs, LAMBDA r : r.round = maxRound)
    IN  [statusLine |-> IF st = "consensus" THEN "consensus reached" ELSE "max rounds reached",
         totalRounds |-> maxRound,
         members |-> [i \in 1..Len(lastResponses) |->
                        [emoji |-> emojiOf(lastResponses[i].agent, allAgents),
                         agent |-> lastResponses[i].agent,
                         consensus |-> lastResponses[i].consensus,
                         text |-> summaryPreview(cleanContent(lastResponses[i].content))]]]

NoSummary == [statusLine |-> "", totalRounds |-> 0, members |-> <<>>]

\* faulty variant: one round heading, then every record
transcriptBodyOneHeading(rs, k, currentRound, allAgents) ==
    IF rs = <<>> THEN <<>>
    ELSE <<[kind |-> "round", round |-> rs[1].round]>>
         \o [i \in 1..Len(rs) |->
                [kind |-> "entry", emoji |-> emojiOf(rs[i].agent, allAgents),
                 agent |-> rs[i].agent, content |-> rs[i].content]]

RECURSIVE transcriptBody(_, _, _, _)
transcriptBody(rs, k, currentRound, allAgents) ==
    IF k > Len(rs) THEN <<>>
    ELSE LET resp == rs[k]
             heading == IF resp.round # currentRound
                        THEN <<[kind |-> "round", round |-> resp.round]>>
                        ELSE <<>>
             entry == [kind |-> "entry", emoji |-> emojiOf(resp.agent, allAgents),
                       agent |-> resp.agent, content |-> resp.content]
         IN  heading \o <<entry>> \o transcriptBody(rs, k + 1, resp.round, allAgents)

buildTranscript(t, st, rs, summary, allAgents) ==
    [task |-> t, status |-> st, body |-> transcriptBody(rs, 1, 0, allAgents),
     summary |-> summary]

-----------------------------------------------------------------------------
(* Council.run *)

\* entry validation: "" is rejected, then a task shorter than the minimum once
\* trimmed; council.ts has no validation
taskRejected(v, t) ==
    IF v = "council.ts" THEN FALSE
    ELSE t = <<>> \/ Len(trim(t)) < MIN_TASK_LENGTH

\* session.task: council.ts stores the task as given, the others trimmed
storedTask(v, t) == IF v = "council.ts" THEN t ELSE trim(t)

\* roundVotes.length === agents.length && roundVotes.every(v => v === true)
allYesSome(votes, n) ==
    Len(votes) = n /\ \E i \in 1..Len(votes) : votes[i] = TRUE

allYesNever(votes, n) == FALSE

allYes(votes, n) ==
    Len(votes) = n /\ \A i \in 1..Len(votes) : votes[i] = TRUE

\* round++
nextRoundSkip(r) == r + 2

nextRound(r) == r + 1

\* allAgents.filter(...) builds a new array: the roster is as it was; a faulty
\* variant removes the agent from the roster itself
rosterAfterSplice(agent, allAgents) == otherAgents(agent, allAgents)

rosterAfterFilter(agent, allAgents) == allAgents

\* the loop test of for (let round = 1; round <= maxRounds; round++)
loopContinuesStrict(r, m) == r < m

loopContinuesOneMore(r, m) == r <= m + 1

loopContinues(r, m) == r <= m

\* if (session.status === 'running') session.status = 'max_rounds'
statusAfterLoopUnguarded(st) == "max_rounds"

statusAfterLoopKept(st) == st

statusAfterLoop(st) == IF st = "running" THEN "max_rounds" ELSE st

\* the for-of loop over the roster has no agent left
agentsExhaustedEarly(i, n) == i >= n

agentsExhausted(i, n) == i > n

\* the for-of loop is at an agent and no call is pending: spawnSync blocks
\* until the child has exited, so the loop body does not advance before
loopAtAgentNoWait == pc \in {"agent", "invoking"} /\ idx <= Len(agents)

loopAtAgent == pc = "agent" /\ ~agentsExhausted(idx, Len(agents))

\* the for-of loop moves to the next roster member, after a response or a failure
nextAgentRetry(i, failed) == IF failed THEN i ELSE i + 1

nextAgent(i, failed) == i + 1

\* session.responses.push(record)
appendRecordFront(log, rec) == <<rec>> \o log

appendRecord(log, rec) == Append(log, rec)

\* the outer catch: session.status = 'error'
fatalStatusKept(st) == st

fatalStatus(st) == "error"

\* what the caller of run gets: the session on return, the exception on throw
\* (the session is a local of run and is not attached to the exception)
callerObtainsSession == pc = "returned"

callerObtainsException == pc = "thrown"

\* the record appended in the catch block of the per-agent try
failureRecordYes(agent, r, message) ==
    [agent |-> agent.name, round |-> r, content |-> <<"Error: ", message>>,
     consensus |-> TRUE, sessionKey |-> <<>>]

failureRecord(agent, r, message) ==
    [agent |-> agent.name, round |-> r, content |-> <<"Error: ", message>>,
     consensus |-> FALSE, sessionKey |-> <<>>]

successRecord(v, agent, r, content) ==
    [agent |-> agent.name, round |-> r, content |-> content,
     consensus |-> parseConsensus(content),
     sessionKey |-> <<cliOf(v, agent), agent.name, r>>]

\* config.timeoutMs absent
NoTimeout == [set |-> FALSE, ms |-> 0]

NoRendered == [done |-> FALSE, text |-> <<>>]

NoSel == [stage |-> "idle", model |-> "", cli |-> "", command |-> ""]

NoSkill == [pc |-> "idle"]

NoCli == [pc |-> "idle"]

NoTwin == [stage |-> "idle"]

\* no Council is running: the state of the specifications of single functions,
\* whose position is p
RunIdle(p) ==
    /\ variant = "multi-cli"
    /\ agents = <<>>
    /\ maxRounds = 1
    /\ timeoutMs = NoTimeout
    /\ projectDir = "/work"
    /\ task = <<>>
    /\ pc = p
    /\ sessionExists = FALSE
    /\ sessionTask = <<>>
    /\ responses = <<>>
    /\ status = "none"
    /\ endTimeSet = FALSE
    /\ round = 0
    /\ idx = 0
    /\ roundVotes = <<>>
    /\ inflight = <<>>
    /\ prompt = NoPrompt
    /\ calls = 0
    /\ invocations = <<>>
    /\ lastResult = NoResult
    /\ roundsRun = 0
    /\ finalSummary = NoSummary
    /\ transcripts = <<>>
    /\ twin = NoTwin

\* the variables of the other specifications, not in use
OthersIdle ==
    /\ text = <<>>
    /\ parsed = [done |-> FALSE, vote |-> FALSE]
    /\ rendered = NoRendered
    /\ sel = NoSel
    /\ skill = NoSkill
    /\ cli = NoCli

\* a Council has been constructed with a configuration and run is called with
\* a task; the configurations are those with rosterSize * maxRounds <= maxCalls
InitRun(timeouts, maxCalls) ==
    /\ variant \in Variants
    /\ agents \in Rosters
    /\ maxRounds \in 1..MaxRoundsBound
    /\ Len(agents) * maxRounds <= maxCalls
    /\ timeoutMs \in timeouts
    /\ projectDir = "/work"
    /\ task \in Tasks
    /\ pc = "entry"
    /\ sessionExists = FALSE
    /\ sessionTask = <<>>
    /\ responses = <<>>
    /\ status = "none"
    /\ endTimeSet = FALSE
    /\ round = 0
    /\ idx = 0
    /\ roundVotes = <<>>
    /\ inflight = <<>>
    /\ prompt = NoPrompt
    /\ calls = 0
    /\ invocations = <<>>
    /\ lastResult = NoResult
    /\ roundsRun = 0
    /\ finalSummary = NoSummary
    /\ transcripts = <<>>
    /\ OthersIdle

Init == InitRun({NoTimeout}, MaxCalls) /\ twin = NoTwin

\* config.timeoutMs: absent, 0, one minute
TimeoutConfigs == {NoTimeout, [set |-> TRUE, ms |-> 0], [set |-> TRUE, ms |-> 60000]}

InitTimeout == InitRun(TimeoutConfigs, MaxFairCalls) /\ twin = NoTwin

\* validation fails: the call throws before a session exists
RejectTask ==
    /\ pc = "entry"
    /\ taskRejected(variant, task)
    /\ pc' = "thrown"
    /\ UNCHANGED <<variant, agents, maxRounds, task, sessionExists, sessionTask,
                   responses, status, endTimeSet, round, idx, roundVotes, inflight,
                   prompt, calls, lastResult, roundsRun, finalSummary, transcripts, text, parsed, invocations, otherVars>>

\* the session is created and the for loop initialised (round = 1)
CreateSession ==
    /\ pc = "entry"
    /\ ~taskRejected(variant, task)
    /\ sessionExists' = TRUE
    /\ sessionTask' = storedTask(variant, task)
    /\ responses' = <<>>
    /\ status' = "running"
    /\ round' = 1
    /\ pc' = "round"
    /\ UNCHANGED <<variant, agents, maxRounds, task, endTimeSet, idx, roundVotes,
                   inflight, prompt, calls, roundsRun, finalSummary, transcripts,
                   text, parsed, invocations, otherVars, lastResult>>

\* loop test round <= maxRounds succeeds: the round's body starts
EnterRound ==
    /\ pc = "round"
    /\ loopContinues(round, maxRounds)
    /\ roundVotes' = <<>>
    /\ idx' = 1
    /\ roundsRun' = roundsRun + 1
    /\ pc' = "agent"
    /\ UNCHANGED <<variant, agents, maxRounds, task, sessionExists, sessionTask,
                   responses, status, endTimeSet, round, inflight, prompt, calls,
                   finalSummary, transcripts, text, parsed, invocations, otherVars, lastResult>>

\* loop test fails: the loop is left without consensus
ExitLoop ==
    /\ pc = "round"
    /\ ~loopContinues(round, maxRounds)
    /\ pc' = "after"
    /\ UNCHANGED <<variant, agents, maxRounds, task, sessionExists, sessionTask,
                   responses, status, endTimeSet, round, idx, roundVotes, inflight,
                   prompt, calls, lastResult, roundsRun, finalSummary, transcripts, text, parsed, invocations, otherVars>>

\* the prompts are built and the agent's process is spawned
StartAgent ==
    /\ loopAtAgent
    /\ ~agentSetupThrows(variant, agents[idx])
    /\ prompt' = [user |-> buildAgentPrompt(agents[idx], sessionTask, round, responses, agents),
                  system |-> buildSystemPrompt(agents[idx], agents)]
    /\ inflight' = Append(inflight, [round |-> round, pos |-> idx])
    /\ invocations' = Append(invocations,
                             [round |-> round, pos |-> idx, prompt |-> prompt',
                              command |-> spawnedCommand(variant, agents[idx]),
                              timeoutMs |-> callTimeout(variant, timeoutMs)])
    /\ agents' = rosterAfterFilter(agents[idx], agents)
    /\ calls' = calls + 1
    /\ pc' = "invoking"
    /\ UNCHANGED <<variant, maxRounds, task, sessionExists, sessionTask,
                   responses, status, endTimeSet, round, idx, roundVotes, roundsRun,
                   finalSummary, transcripts, text, parsed, otherVars, lastResult>>

\* the loop body throws before the per-agent try: the outer catch sets status
\* error and the end time, and rethrows
AgentSetupThrows ==
    /\ loopAtAgent
    /\ agentSetupThrows(variant, agents[idx])
    /\ status' = fatalStatus(status)
    /\ endTimeSet' = TRUE
    /\ pc' = "thrown"
    /\ UNCHANGED <<variant, agents, maxRounds, task, sessionExists, sessionTask,
                   responses, round, idx, roundVotes, inflight, prompt, calls,
                   roundsRun, finalSummary, transcripts, text, parsed, invocations, otherVars, lastResult>>

\* the process has exited and runAgent returns its output
AgentReturns ==
    /\ pc = "invoking"
    /\ inflight # <<>>
    /\ \E result \in SpawnResults :
        /\ ~spawnCliThrows(result)
        /\ LET rec == successRecord(variant, agents[idx], round, spawnCliOutput(result))
           IN  /\ roundVotes' = Append(roundVotes, rec.consensus)
               /\ responses' = appendRecord(responses, rec)
               /\ lastResult' = result
    /\ inflight' = Tail(inflight)
    /\ idx' = nextAgent(idx, FALSE)
    /\ pc' = "agent"
    /\ UNCHANGED <<variant, agents, maxRounds, task, sessionExists, sessionTask,
                   status, endTimeSet, round, prompt, calls, roundsRun, finalSummary,
                   transcripts, text, parsed, invocations, otherVars>>

\* runAgent throws (spawn error or timeout): the catch block records the failure
AgentFails ==
    /\ pc = "invoking"
    /\ inflight # <<>>
    /\ \E result \in SpawnResults :
        /\ spawnCliThrows(result)
        /\ LET rec == failureRecord(agents[idx], round, result.error)
           IN  /\ roundVotes' = Append(roundVotes, rec.consensus)
               /\ responses' = appendRecord(responses, rec)
               /\ lastResult' = result
    /\ inflight' = Tail(inflight)
    /\ idx' = nextAgent(idx, TRUE)
    /\ pc' = "agent"
    /\ UNCHANGED <<variant, agents, maxRounds, task, sessionExists, sessionTask,
                   status, endTimeSet, round, prompt, calls, roundsRun, finalSummary,
                   transcripts, text, parsed, invocations, otherVars>>

\* every agent has acted and all voted YES: status consensus, break
ConsensusReached ==
    /\ pc = "agent"
    /\ agentsExhausted(idx, Len(agents))
    /\ allYes(roundVotes, Len(agents))
    /\ status' = "consensus"
    /\ pc' = "after"
    /\ UNCHANGED <<variant, agents, maxRounds, task, sessionExists, sessionTask,
                   responses, endTimeSet, round, idx, roundVotes, inflight, prompt,
                   calls, roundsRun, finalSummary, transcripts, text, parsed, invocations, otherVars, lastResult>>

\* every agent has acted, no consensus: round++
NextRound ==
    /\ pc = "agent"
    /\ agentsExhausted(idx, Len(agents))
    /\ ~allYes(roundVotes, Len(agents))
    /\ round' = nextRound(round)
    /\ pc' = "round"
    /\ UNCHANGED <<variant, agents, maxRounds, task, sessionExists, sessionTask,
                   responses, status, endTimeSet, idx, roundVotes, inflight, prompt,
                   calls, roundsRun, finalSummary, transcripts, text, parsed, invocations, otherVars, lastResult>>

\* after the loop: max_rounds if still running, end time, summary
FinishLoop ==
    /\ pc = "after"
    /\ status' = statusAfterLoop(status)
    /\ endTimeSet' = TRUE
    /\ finalSummary' = generateSummary(status', responses, agents)
    /\ pc' = "save"
    /\ UNCHANGED <<variant, agents, maxRounds, task, sessionExists, sessionTask,
                   responses, round, idx, roundVotes, inflight, prompt, calls,
                   roundsRun, transcripts, text, parsed, invocations, otherVars, lastResult>>

\* saveTranscript writes the file and run returns the session
SaveTranscriptOk ==
    /\ pc = "save"
    /\ transcripts' = Append(transcripts,
                             buildTranscript(sessionTask, status, responses, finalSummary, agents))
    /\ pc' = "returned"
    /\ UNCHANGED <<variant, agents, maxRounds, task, sessionExists, sessionTask,
                   responses, status, endTimeSet, round, idx, roundVotes, inflight,
                   prompt, calls, roundsRun, finalSummary, text, parsed, invocations, otherVars, lastResult>>

\* fs.writeFileSync throws: the outer catch sets status error and rethrows
SaveTranscriptThrows ==
    /\ pc = "save"
    /\ status' = fatalStatus(status)
    /\ endTimeSet' = TRUE
    /\ pc' = "thrown"
    /\ UNCHANGED <<variant, agents, maxRounds, task, sessionExists, sessionTask,
                   responses, round, idx, roundVotes, inflight, prompt, calls,
                   roundsRun, finalSummary, transcripts, text, parsed, invocations, otherVars, lastResult>>

Next ==
    \/ RejectTask
    \/ CreateSession
    \/ EnterRound
    \/ ExitLoop
    \/ StartAgent
    \/ AgentSetupThrows
    \/ AgentReturns
    \/ AgentFails
    \/ ConsensusReached
    \/ NextRound
    \/ FinishLoop
    \/ SaveTranscriptOk
    \/ SaveTranscriptThrows

Spec == Init /\ [][Next]_vars

\* the runs of Councils whose configuration may carry a timeout
SpecTimeout == InitTimeout /\ [][Next]_vars

\* every step of run is taken eventually: the code between two calls runs to
\* the next call, and spawnSync returns at the latest when its timeout expires
InitFair == InitRun({NoTimeout}, MaxFairCalls) /\ twin = NoTwin

SpecFair == InitFair /\ [][Next]_vars /\ WF_vars(Next)

-----------------------------------------------------------------------------
(* The text functions on their own: every text of at most MaxTextLen tokens *)

Tokens == {"[CONSENSUS:", "[consensus:", " ", "YES", "no", "]"}

\* every text of n tokens, as a first part followed by a second part
InitText ==
    /\ \E n \in 0..MaxTextLen :
        \E a \in [1..(n \div 2) -> Tokens], b \in [1..(n - (n \div 2)) -> Tokens] :
            text = a \o b
    /\ parsed = [done |-> FALSE, vote |-> FALSE]
    /\ RunIdle("text")
    /\ rendered = NoRendered
    /\ sel = NoSel
    /\ skill = NoSkill
    /\ cli = NoCli

\* const consensus = parseConsensus(content)
ParseVote ==
    /\ pc = "text"
    /\ ~parsed.done
    /\ parsed' = [done |-> TRUE, vote |-> parseConsensus(text)]
    /\ UNCHANGED <<text, runVars, invocations, otherVars>>

NextText == ParseVote

SpecText == InitText /\ [][NextText]_vars

\* the text shown for a record in a later agent's history
RenderHistory ==
    /\ pc = "text"
    /\ ~rendered.done
    /\ rendered' = [done |-> TRUE, text |-> preview(cleanContent(text))]
    /\ UNCHANGED <<text, parsed, runVars, invocations, timeoutMs, projectDir, sel, skill, cli, twin>>

NextHistory == RenderHistory

\* the history text of every record content of at most MaxTextLen tokens
SpecHistory == InitText /\ [][NextHistory]_vars

\* n times the character "x", for n a sum of powers of two
X1 == "x"
X2 == X1 \o X1
X4 == X2 \o X2
X8 == X4 \o X4
X16 == X8 \o X8
X32 == X16 \o X16
X64 == X32 \o X32
X128 == X64 \o X64
X256 == X128 \o X128
X400 == X256 \o X128 \o X16
X399 == SubSeq(X400, 1, 399)

\* long and short pieces of text, whitespace, and the pieces of a vote marker
PreviewTokens == {X400, X399, "a", " ", "[CONSENSUS:", "YES", "]"}

InitPreview ==
    /\ \E n \in 0..MaxPreviewLen : text \in [1..n -> PreviewTokens]
    /\ parsed = [done |-> FALSE, vote |-> FALSE]
    /\ RunIdle("text")
    /\ rendered = NoRendered
    /\ sel = NoSel
    /\ skill = NoSkill
    /\ cli = NoCli

\* the history text of record contents around the preview length
SpecPreview == InitPreview /\ [][NextHistory]_vars

\* model identifiers: the prefixes of the selection rule in both letter cases,
\* near misses and other names, each with a few endings
ModelPrefixes ==
    {"claude", "Claude", "anthropic/", "gemini-", "GEMINI-", "google/", "gpt-", "Gpt-",
     "o1", "O3", "o4", "azure/", "Azure/", "gemini", "gpt", "o2", "deepseek-",
     "openai/", "xclaude", "o"}

ModelEndings == {"", "pro", "-4o"}

ModelIds == {p \o e : p \in ModelPrefixes, e \in ModelEndings} \cup {""}

\* an agent with the given model
AgentWithModel(id) == [AgentAt(1) EXCEPT !.model = id]

InitBackend ==
    /\ \E id \in ModelIds : sel = [stage |-> "given", model |-> id, cli |-> "", command |-> ""]
    /\ text = <<>>
    /\ parsed = [done |-> FALSE, vote |-> FALSE]
    /\ RunIdle("backend")
    /\ rendered = NoRendered
    /\ skill = NoSkill
    /\ cli = NoCli

\* const cli = getCliForModel(model)
SelectBackend ==
    /\ sel.stage = "given"
    /\ sel' = [sel EXCEPT !.stage = "selected", !.cli = getCliForModel(sel.model)]
    /\ UNCHANGED <<text, parsed, runVars, invocations, timeoutMs, projectDir, rendered, skill, cli, twin>>

\* runAgent's switch calls a run*Cli function, which spawns its command
DispatchBackend ==
    /\ sel.stage = "selected"
    /\ sel' = [sel EXCEPT !.stage = "spawned",
                          !.command = spawnedCommand("multi-cli", AgentWithModel(sel.model))]
    /\ UNCHANGED <<text, parsed, runVars, invocations, timeoutMs, projectDir, rendered, skill, cli, twin>>

\* the process answered: the record's sessionKey starts with the cli name
TagRecord ==
    /\ sel.stage = "spawned"
    /\ sel' = [stage |-> "recorded", model |-> sel.model, cli |-> sel.cli,
               command |-> sel.command,
               tag |-> successRecord("multi-cli", AgentWithModel(sel.model), 1, TextYes).sessionKey[1]]
    /\ UNCHANGED <<text, parsed, runVars, invocations, timeoutMs, projectDir, rendered, skill, cli, twin>>

NextBackend == SelectBackend \/ DispatchBackend \/ TagRecord

SpecBackend == InitBackend /\ [][NextBackend]_vars

-----------------------------------------------------------------------------
(* The command line of src/src/index.ts, which runs the Council of
   src/src/council.ts *)

\* the runs started from the command line make at most this many agent calls
MaxCliCalls == 4

DigitOf ==
    ("0" :> 0) @@ ("1" :> 1) @@ ("2" :> 2) @@ ("3" :> 3) @@ ("4" :> 4) @@
    ("5" :> 5) @@ ("6" :> 6) @@ ("7" :> 7) @@ ("8" :> 8) @@ ("9" :> 9)

\* parseInt(str, 10) of a string that starts with a digit: the leading digits
RECURSIVE parseIntFrom(_, _, _)
parseIntFrom(str, k, acc) ==
    IF k > Len(str) \/ SubSeq(str, k, k) \notin DOMAIN DigitOf THEN acc
    ELSE parseIntFrom(str, k + 1, acc * 10 + DigitOf[SubSeq(str, k, k)])

parseInt(str) == parseIntFrom(str, 1, 0)

\* .option('-m, --max-rounds <n>', 'Maximum rounds', '15'): options.maxRounds
\* is the flag's value, and '15' when the flag is not passed ("")
optionMaxRounds(flag) == IF flag = "" THEN "15" ELSE flag

\* if (options.maxRounds) { config.maxRounds = parseInt(options.maxRounds, 10) }
overrideMaxRounds(configured, option) ==
    IF option # "" THEN parseInt(option) ELSE configured

\* getDefaultConfig: three agents, maxRounds 15
getDefaultConfig == [agents |-> [i \in 1..3 |-> AgentAt(i)], maxRounds |-> 15]

\* --max-rounds: not passed (""), or a decimal number
CliFlags == {"", "1", "2", "10"}

\* --config: not passed, a file loadConfig cannot read or parse, or a
\* configuration file
CliFiles ==
    {[given |-> g, readable |-> FALSE, agents |-> <<>>, maxRounds |-> 0] : g \in BOOLEAN}
    \cup {[given |-> TRUE, readable |-> TRUE,
           agents |-> [i \in 1..k |-> AgentAt(i)], maxRounds |-> n] :
              k \in 0..2, n \in {1, 3}}

\* --dir, resolved
CliDirs == {"/work", "/missing"}

\* fs.existsSync
existsSync(dir) == dir = "/work"

\* --output: not passed, a path that can be written, one that cannot
CliOutputs == {"none", "writable", "unwritable"}

\* process.exit(session.status === 'consensus' ? 0 : 1)
exitCodeAlwaysZero(st) == 0

exitCode(st) == IF st = "consensus" THEN 0 ELSE 1

InitCli ==
    /\ RunIdle("cli")
    /\ text = <<>>
    /\ parsed = [done |-> FALSE, vote |-> FALSE]
    /\ rendered = NoRendered
    /\ sel = NoSel
    /\ skill = NoSkill
    /\ cli \in [pc : {"start"}, flag : CliFlags, file : CliFiles, dir : CliDirs,
                output : CliOutputs, task : Tasks \ {<<>>}, resolved : {FALSE},
                written : {FALSE}, exit : {-1}]

\* lines 28-41: the configuration is loaded or defaulted, the working
\* directory and the round limit are overridden; loadConfig throwing goes to
\* the catch, which exits with 1
CliResolveConfig ==
    /\ cli.pc = "start"
    /\ IF cli.file.given /\ ~cli.file.readable
       THEN /\ cli' = [cli EXCEPT !.pc = "exited", !.exit = 1]
            /\ UNCHANGED <<agents, maxRounds, projectDir, twin>>
       ELSE LET config == IF cli.file.given
                          THEN [agents |-> cli.file.agents, maxRounds |-> cli.file.maxRounds]
                          ELSE getDefaultConfig
            IN  /\ agents' = config.agents
                /\ maxRounds' = overrideMaxRounds(config.maxRounds, optionMaxRounds(cli.flag))
                /\ projectDir' = cli.dir
                /\ cli' = [cli EXCEPT !.pc = "resolved", !.resolved = TRUE]
    /\ UNCHANGED <<variant, task, pc, sessionExists, sessionTask, responses, status,
                   endTimeSet, round, idx, roundVotes, inflight, prompt, calls,
                   lastResult, roundsRun, finalSummary, transcripts, text, parsed,
                   invocations, timeoutMs, rendered, sel, skill, twin>>

\* lines 43-49: a missing working directory exits with 1; otherwise the
\* Council is constructed and run is called with the task
CliStartRun ==
    /\ cli.pc = "resolved"
    /\ IF ~existsSync(projectDir)
       THEN /\ cli' = [cli EXCEPT !.pc = "exited", !.exit = 1]
            /\ UNCHANGED <<variant, task, pc, twin>>
       ELSE /\ Len(agents) * maxRounds <= MaxCliCalls
            /\ variant' = "council.ts"
            /\ task' = cli.task
            /\ pc' = "entry"
            /\ cli' = [cli EXCEPT !.pc = "running"]
    /\ UNCHANGED <<agents, maxRounds, projectDir, sessionExists, sessionTask,
                   responses, status, endTimeSet, round, idx, roundVotes, inflight,
                   prompt, calls, lastResult, roundsRun, finalSummary, transcripts,
                   text, parsed, invocations, timeoutMs, rendered, sel, skill, twin>>

\* lines 51-60: run has returned; the result is written when --output is
\* given (writeFileSync throwing goes to the catch), then the exit code is set
CliFinish ==
    /\ cli.pc = "running"
    /\ callerObtainsSession
    /\ IF cli.output = "unwritable"
       THEN cli' = [cli EXCEPT !.pc = "exited", !.exit = 1]
       ELSE cli' = [cli EXCEPT !.pc = "exited", !.written = (cli.output = "writable"),
                               !.exit = exitCode(status)]
    /\ UNCHANGED <<runVars, text, parsed, invocations, timeoutMs, projectDir,
                   rendered, sel, skill, twin>>

\* lines 61-64: run has thrown
CliCatch ==
    /\ cli.pc = "running"
    /\ callerObtainsException
    /\ cli' = [cli EXCEPT !.pc = "exited", !.exit = 1]
    /\ UNCHANGED <<runVars, text, parsed, invocations, timeoutMs, projectDir,
                   rendered, sel, skill, twin>>

\* the Council of src/src/council.ts validates neither the task nor the models
NextCli ==
    \/ CliResolveConfig
    \/ CliStartRun
    \/ CreateSession
    \/ EnterRound
    \/ ExitLoop
    \/ StartAgent
    \/ AgentReturns
    \/ AgentFails
    \/ ConsensusReached
    \/ NextRound
    \/ FinishLoop
    \/ SaveTranscriptOk
    \/ SaveTranscriptThrows
    \/ CliFinish
    \/ CliCatch

SpecCli == InitCli /\ [][NextCli]_vars

-----------------------------------------------------------------------------
(* runViaClaudeCodeSkill: one agent call through claude-code-skill *)

\* str.includes(sub)
includes(str, sub) ==
    \E i \in 1..(Len(str) - Len(sub) + 1) : SubSeq(str, i, i + Len(sub) - 1) = sub

\* what spawnSync returns for session-start: a spawn error (the command is
\* missing or timed out), or the text the command wrote to stderr
StartResults ==
    {[error |-> TRUE, stderr |-> ""],
     [error |-> FALSE, stderr |-> ""],
     [error |-> FALSE, stderr |-> "warning: slow start"],
     [error |-> FALSE, stderr |-> "Error: busy"],
     [error |-> FALSE, stderr |-> "error: unknown model"]}

\* what spawnSync returns for session-send
SendResults ==
    {[error |-> TRUE, stdout |-> ""],
     [error |-> FALSE, stdout |-> ""],
     [error |-> FALSE, stdout |-> "done [CONSENSUS: YES]"]}

\* the function as it is in src/src/index.ts (v2.1) and in
\* src/unnamed/part_002 (v2)
SkillVersions == {"v2.1", "v2"}

\* the throws before the try block: the start did not succeed. v2.1 also
\* inspects stderr, v2 only the spawn error
startFailed(version, result) ==
    \/ result.error
    \/ version = "v2.1" /\ result.stderr # "" /\ includes(result.stderr, "error")

\* const { model, baseUrl, timeoutMs = DEFAULT_TIMEOUT_MS } = options
skillTimeout(option) == IF option.set THEN option.ms ELSE DEFAULT_TIMEOUT_MS

\* startArgs, with --model and --base-url pushed when given
startArgs(name, model, baseUrl) ==
    <<"session-start", name, "-d", "/work", "--permission-mode", "acceptEdits",
      "--append-system-prompt">>
    \o (IF model # "" THEN <<"--model", model>> ELSE <<>>)
    \o (IF baseUrl # "" THEN <<"--base-url", baseUrl>> ELSE <<>>)

\* the finally block runs whether the try block returned or threw; a faulty
\* variant stops the session only after a send that did not throw
stopsAfterSuccessOnly(sendThrew) == ~sendThrew

finallyRuns(sendThrew) == TRUE

\* `three-minds-${Date.now()}`
SessionNames == {"three-minds-1", "three-minds-2"}

SkillOptions ==
    [model : {"", "gpt-4o"}, baseUrl : {"", "http://localhost:8787"},
     timeoutMs : {NoTimeout, [set |-> TRUE, ms |-> 60000]}]

InitSkill ==
    /\ RunIdle("skill")
    /\ text = <<>>
    /\ parsed = [done |-> FALSE, vote |-> FALSE]
    /\ rendered = NoRendered
    /\ sel = NoSel
    /\ cli = NoCli
    /\ skill \in [pc : {"start"}, version : SkillVersions, name : SessionNames, options : SkillOptions,
                  started : {[error |-> FALSE, stderr |-> ""]},
                  sendThrew : {FALSE}, output : {""}, log : {<<>>}]

\* session-start is spawned; a spawn error or an stderr that includes 'error'
\* throws before the try block is entered
SkillStart ==
    /\ skill.pc = "start"
    /\ \E result \in StartResults :
          skill' = [skill EXCEPT
                      !.log = Append(@, [args |-> startArgs(skill.name, skill.options.model,
                                                            skill.options.baseUrl),
                                         timeout |-> 30000]),
                      !.started = result,
                      !.pc = IF startFailed(skill.version, result) THEN "thrown" ELSE "send"]
    /\ UNCHANGED <<runVars, text, parsed, invocations, timeoutMs, projectDir,
                   rendered, sel, cli, twin>>

\* try: session-send is spawned; a spawn error throws, otherwise stdout || ''
\* is the value to return
SkillSend ==
    /\ skill.pc = "send"
    /\ \E result \in SendResults :
          skill' = [skill EXCEPT
                      !.log = Append(@, [args |-> <<"session-send", skill.name, "prompt", "-t",
                                                    skillTimeout(skill.options.timeoutMs)>>,
                                         timeout |-> skillTimeout(skill.options.timeoutMs) + 10000]),
                      !.sendThrew = result.error,
                      !.output = IF result.error THEN "" ELSE result.stdout,
                      !.pc = "finally"]
    /\ UNCHANGED <<runVars, text, parsed, invocations, timeoutMs, projectDir,
                   rendered, sel, cli, twin>>

\* finally: session-stop is spawned, then the function returns or rethrows
SkillStop ==
    /\ skill.pc = "finally"
    /\ skill' = [skill EXCEPT
                   !.log = IF finallyRuns(skill.sendThrew)
                           THEN Append(@, [args |-> <<"session-stop", skill.name>>,
                                           timeout |-> 10000])
                           ELSE @,
                   !.pc = IF skill.sendThrew THEN "thrown" ELSE "returned"]
    /\ UNCHANGED <<runVars, text, parsed, invocations, timeoutMs, projectDir,
                   rendered, sel, cli, twin>>

NextSkill == SkillStart \/ SkillSend \/ SkillStop

SpecSkill == InitSkill /\ [][NextSkill]_vars

-----------------------------------------------------------------------------
(* Two runs of one Council on one task, the agents' outcomes given by one
   script: the n-th invocation of either run yields the script's n-th outcome *)

\* the scripted runs make at most this many agent calls
MaxTwinCalls == 4

\* what an invocation yields: the text written, or the failure; the exit
\* status is not part of it
outcomeOf(result) ==
    IF result.error # "none"
    THEN [failed |-> TRUE, text |-> <<result.error>>]
    ELSE [failed |-> FALSE, text |-> result.stdout]

Outcomes == {outcomeOf(r) : r \in SpawnResults}

NoFirstRun ==
    [status |-> "none", rounds |-> 0, responses |-> <<>>, prompts |-> <<>>,
     threw |-> FALSE, saveThrew |-> FALSE]

\* the prompts given to the invocations so far
promptsSoFar == [k \in 1..Len(invocations) |-> invocations[k].prompt]

\* fs.writeFileSync threw in saveTranscript
saveThrew == callerObtainsException /\ finalSummary # NoSummary

InitTwin ==
    /\ InitRun({NoTimeout}, MaxTwinCalls)
    /\ twin \in {[stage |-> "first", script |-> sc, first |-> NoFirstRun] :
                    sc \in [1..(Len(agents) * maxRounds) -> Outcomes]}

\* a step of Council.run, in the first run or in the second; an invocation
\* that ends yields the outcome of the script
Scripted(step) ==
    /\ twin.stage \in {"first", "second"}
    /\ step
    /\ (responses' # responses) =>
          outcomeOf(lastResult') = twin.script[Len(responses')]

\* the first run has ended: what it produced is kept, and run is called again
\* on a Council constructed from the same configuration, with the same task
StartSecondRun ==
    /\ twin.stage = "first"
    /\ pc \in {"returned", "thrown"}
    /\ twin' = [twin EXCEPT !.stage = "second",
                            !.first = [status |-> status, rounds |-> roundsRun,
                                       responses |-> responses, prompts |-> promptsSoFar,
                                       threw |-> callerObtainsException,
                                       saveThrew |-> saveThrew]]
    /\ pc' = "entry"
    /\ sessionExists' = FALSE
    /\ sessionTask' = <<>>
    /\ responses' = <<>>
    /\ status' = "none"
    /\ endTimeSet' = FALSE
    /\ round' = 0
    /\ idx' = 0
    /\ roundVotes' = <<>>
    /\ inflight' = <<>>
    /\ prompt' = NoPrompt
    /\ calls' = 0
    /\ invocations' = <<>>
    /\ lastResult' = NoResult
    /\ roundsRun' = 0
    /\ finalSummary' = NoSummary
    /\ transcripts' = <<>>
    /\ UNCHANGED <<variant, agents, maxRounds, task, timeoutMs, projectDir, text,
                   parsed, rendered, sel, skill, cli>>

NextTwin ==
    \/ Scripted(RejectTask)
    \/ Scripted(CreateSession)
    \/ Scripted(EnterRound)
    \/ Scripted(ExitLoop)
    \/ Scripted(StartAgent)
    \/ Scripted(AgentSetupThrows)
    \/ Scripted(AgentReturns)
    \/ Scripted(AgentFails)
    \/ Scripted(ConsensusReached)
    \/ Scripted(NextRound)
    \/ Scripted(FinishLoop)
    \/ Scripted(SaveTranscriptOk)
    \/ Scripted(SaveTranscriptThrows)
    \/ StartSecondRun

SpecTwin == InitTwin /\ [][NextTwin]_vars

-----------------------------------------------------------------------------
(* Properties *)

RosterSize == Len(agents)

RoundRecords(r) == SelectSeq(responses, LAMBDA x : x.round = r)

AllVotedYes(rs) == \A i \in 1..Len(rs) : rs[i].consensus = TRUE

\* the record of a failed invocation carries no session key
IsFailureRecord(rec) == rec.sessionKey = <<>>

\* the marker shape, stated on its own: label, whitespace only, YES or NO, "]"
MarkerAt(s, i) ==
    /\ i \in 1..Len(s)
    /\ s[i] \in {"[CONSENSUS:", "[consensus:"}
    /\ \E j \in (i + 1)..(Len(s) - 1) :
        /\ \A k \in (i + 1)..(j - 1) : s[k] \in Whitespace
        /\ s[j] \in {"YES", "yes", "NO", "no"}
        /\ s[j + 1] = "]"

\* the YES/NO word of the marker at i
MarkerWord(s, i) ==
    s[CHOOSE j \in (i + 1)..(Len(s) - 1) :
        /\ \A k \in (i + 1)..(j - 1) : s[k] \in Whitespace
        /\ s[j] \in {"YES", "yes", "NO", "no"}]

MarkerPositions(s) == {i \in 1..Len(s) : MarkerAt(s, i)}

HasMarker(s) == MarkerPositions(s) # {}

\* C1: when the status is consensus, the final round holds one record per roster
\* agent, in roster order, every vote of it is true, nothing was recorded for a
\* later round, and no earlier round had rosterSize votes that were all true.
C1_ConsensusFinalRound ==
    status = "consensus" =>
        /\ Len(RoundRecords(round)) = RosterSize
        /\ \A i \in 1..RosterSize : RoundRecords(round)[i].agent = agents[i].name
        /\ AllVotedYes(RoundRecords(round))
        /\ roundVotes = [i \in 1..RosterSize |-> TRUE]
        /\ \A k \in 1..Len(responses) : responses[k].round <= round
        /\ \A r \in 1..(round - 1) :
            ~(Len(RoundRecords(r)) = RosterSize /\ AllVotedYes(RoundRecords(r)))

\* three agents agree in round 2 after a round without consensus
C1_Witness ==
    /\ status = "consensus"
    /\ pc = "returned"
    /\ RosterSize = 3
    /\ round = 2
    /\ Len(responses) = 6

C3_OneInvocationAtATime ==
    /\ Len(inflight) <= 1
    /\ Len(responses) + Len(inflight) = calls
    /\ (inflight # <<>> =>
            /\ pc = "invoking"
            /\ inflight[1] = [round |-> round, pos |-> idx])

\* the second agent of round 2 is running, the three earlier records are logged
C3_Witness ==
    /\ Len(inflight) = 1
    /\ inflight[1] = [round |-> 2, pos |-> 2]
    /\ RosterSize = 2
    /\ Len(responses) = 3

\* the entries of a rendered history, each with the round of the heading above it
RECURSIVE HistoryEntries(_, _, _)
HistoryEntries(h, k, heading) ==
    IF k > Len(h) THEN <<>>
    ELSE IF h[k].kind = "round" THEN HistoryEntries(h, k + 1, h[k].round)
    ELSE <<[round |-> heading, agent |-> h[k].agent, consensus |-> h[k].consensus]>>
             \o HistoryEntries(h, k + 1, heading)

\* C4: the history in the prompt of agent N in round R lists exactly the records
\* of rounds 1..R-1 (every roster agent, failed or not) followed by those of
\* round R's agents 1..N-1, in that order, and nothing else.
C4_HistoryWindow ==
    pc = "invoking" =>
        LET shown == HistoryEntries(prompt.user.history, 1, 0)
        IN  /\ prompt.user.round = round
            /\ Len(shown) = (round - 1) * RosterSize + (idx - 1)
            /\ \A k \in 1..Len(shown) :
                /\ shown[k].round = ((k - 1) \div RosterSize) + 1
                /\ shown[k].agent = agents[((k - 1) % RosterSize) + 1].name
                /\ shown[k].round = responses[k].round
                /\ shown[k].agent = responses[k].agent
                /\ shown[k].consensus = responses[k].consensus

\* agent 2 of round 2 is shown round 1 (with a failed record in it) and agent 1 of round 2
C4_Witness ==
    /\ pc = "invoking"
    /\ RosterSize = 3
    /\ round = 2
    /\ idx = 2
    /\ IsFailureRecord(responses[2])
    /\ Len(HistoryEntries(prompt.user.history, 1, 0)) = 4

\* C5: when the status is max_rounds, the number of rounds executed equals
\* maxRounds and no executed round had all-true votes.
C5_MaxRounds ==
    status = "max_rounds" =>
        /\ roundsRun = maxRounds
        /\ RosterSize > 0 => maxRoundOf(responses) = maxRounds
        /\ \A r \in 1..maxRounds :
            /\ Len(RoundRecords(r)) = RosterSize
            /\ ~AllVotedYes(RoundRecords(r))

\* three agents, two rounds, agent 2 votes NO in both
C5_Witness ==
    /\ status = "max_rounds"
    /\ pc = "returned"
    /\ RosterSize = 3
    /\ maxRounds = 2
    /\ Len(responses) = 6
    /\ \A k \in 1..6 : responses[k].consensus = (responses[k].agent # agents[2].name)

\* C6 as stated: consensus, max_rounds and error are terminal, a status among
\* them never changes again.
C6_TerminalStatusNeverChanges ==
    [][(status \in {"consensus", "max_rounds", "error"}) => (status' = status)]_vars

\* C6 amended: the status moves from running to consensus, max_rounds or error
\* and never back to running; error is terminal; consensus or max_rounds changes
\* only to error, and only when writing the transcript throws; once run has
\* returned or thrown the status is fixed.
C6_StatusTransitions ==
    [][/\ (status = "running" => status' \in {"running", "consensus", "max_rounds", "error"})
       /\ (status \in {"consensus", "max_rounds"} => status' \in {status, "error"})
       /\ ((status \in {"consensus", "max_rounds"} /\ status' = "error") =>
              (pc = "save" /\ pc' = "thrown"))
       /\ (status = "error" => status' = "error")
       /\ (pc \in {"returned", "thrown"} => status' = status)]_vars

\* consensus was reached, the transcript could not be written, the status is error
C6_Witness ==
    /\ status = "error"
    /\ pc = "thrown"
    /\ RosterSize = 3
    /\ AllVotedYes(RoundRecords(round))
    /\ Len(RoundRecords(round)) = 3

\* C7: for a task that is empty or shorter than the minimum length once trimmed,
\* no session is created, no round executes and no agent is invoked.
C7_ShortTaskRejected ==
    (task = <<>> \/ Len(trim(task)) < MIN_TASK_LENGTH) =>
        /\ ~sessionExists
        /\ roundsRun = 0
        /\ calls = 0

\* the literal upper-case YES marker, with one space, starts at position i
YesLiteralAt(s, i) ==
    i + 3 <= Len(s) /\ SubSeq(s, i, i + 3) = <<"[CONSENSUS:", " ", "YES", "]">>

\* a NO marker with one space, in either letter case, starts at position i
NoMarkerAnyCaseAt(s, i) ==
    /\ i + 3 <= Len(s)
    /\ s[i] \in {"[CONSENSUS:", "[consensus:"}
    /\ s[i + 1] = " "
    /\ s[i + 2] \in {"NO", "no"}
    /\ s[i + 3] = "]"

\* C8 as stated: a text containing [CONSENSUS: YES] anywhere yields true, a text
\* containing [consensus: no] in any letter case yields false, a text without a
\* marker yields false.
C8_MarkerAnywhere ==
    parsed.done =>
        /\ (\E i \in 1..Len(text) : YesLiteralAt(text, i)) => parsed.vote = TRUE
        /\ (\E i \in 1..Len(text) : NoMarkerAnyCaseAt(text, i)) => parsed.vote = FALSE
        /\ ~HasMarker(text) => parsed.vote = FALSE

\* C8 amended: a text containing [CONSENSUS: YES] with no marker before it yields
\* true; a text containing [consensus: no] (any letter case) with no marker
\* before it yields false; a text without a marker yields false.
C8_FirstMarkerDecides ==
    parsed.done =>
        /\ (\E i \in 1..Len(text) :
                YesLiteralAt(text, i) /\ \A k \in 1..(i - 1) : ~MarkerAt(text, k))
            => parsed.vote = TRUE
        /\ (\E i \in 1..Len(text) :
                NoMarkerAnyCaseAt(text, i) /\ \A k \in 1..(i - 1) : ~MarkerAt(text, k))
            => parsed.vote = FALSE
        /\ ~HasMarker(text) => parsed.vote = FALSE

\* a YES marker after other text, parsed as true
C8_Witness ==
    /\ parsed.done
    /\ text = <<"]", "no", "[CONSENSUS:", " ", "YES", "]">>
    /\ parsed.vote = TRUE

\* the leftmost marker of a text that has one
FirstMarker(s) == CHOOSE i \in MarkerPositions(s) : \A k \in MarkerPositions(s) : i <= k

\* C9: for a text with several markers the vote is the one of the first marker,
\* true iff its word is YES, whatever the later markers say.
C9_FirstOfSeveralMarkers ==
    (parsed.done /\ Cardinality(MarkerPositions(text)) >= 2) =>
        parsed.vote = (MarkerWord(text, FirstMarker(text)) \in {"YES", "yes"})

\* a NO marker first and a YES marker at the very end: the vote is NO
C9_Witness ==
    /\ parsed.done
    /\ text = <<"[consensus:", "no", "]", "[CONSENSUS:", "YES", "]">>
    /\ parsed.vote = FALSE

LastInvocationFailed == lastResult.error # "none" \/ lastResult.status # 0

\* C11: after an invocation whose process exited non-zero, failed to spawn or
\* timed out, the record appended for it has vote false and the error
\* description as text, and it is a failure record (no vote taken from output).
C11_BadExitIsFailure ==
    (responses # <<>> /\ LastInvocationFailed) =>
        LET rec == responses[Len(responses)]
        IN  /\ rec.consensus = FALSE
            /\ IsFailureRecord(rec)
            /\ rec.content[1] = "Error: "

\* the number of the last round whose body was entered
FinalRound == roundsRun

RunCompleted == sessionExists /\ pc \in {"returned", "thrown"}

\* C12: in a completed session every round before the final one has exactly
\* rosterSize records and nothing is recorded beyond the final round; the final
\* round has fewer only if the run ended in status error in the middle of it;
\* a run ending in consensus or max_rounds has rosterSize records in every round.
C12_RoundsComplete ==
    /\ sessionExists => \A r \in 1..(round - 1) : Len(RoundRecords(r)) = RosterSize
    /\ RunCompleted =>
        /\ \A r \in 1..(FinalRound - 1) : Len(RoundRecords(r)) = RosterSize
        /\ \A k \in 1..Len(responses) : responses[k].round \in 1..FinalRound
        /\ Len(RoundRecords(FinalRound)) <= RosterSize
        /\ Len(RoundRecords(FinalRound)) < RosterSize =>
                (status = "error" /\ ~agentsExhausted(idx, RosterSize))
        /\ status \in {"consensus", "max_rounds"} =>
                \A r \in 1..FinalRound : Len(RoundRecords(r)) = RosterSize

\* the second agent's setup threw after the first agent had answered
C12_Witness ==
    /\ RunCompleted
    /\ status = "error"
    /\ RosterSize = 2
    /\ FinalRound = 1
    /\ Len(RoundRecords(1)) = 1

\* C13: a step in which an exception escapes the per-agent boundary sets the
\* status to error and the end time, leaves the record log as it was, makes no
\* further agent call, and run ends by throwing; nothing happens afterwards.
C13_FatalError ==
    [][/\ (sessionExists /\ pc # "thrown" /\ pc' = "thrown") =>
              /\ status' = "error"
              /\ endTimeSet'
              /\ responses' = responses
              /\ calls' = calls
              /\ transcripts' = transcripts
       /\ (pc = "thrown") => (vars' = vars)]_vars

\* two rounds without consensus, the summary was generated, the transcript
\* could not be written
C13_Witness ==
    /\ callerObtainsException
    /\ status = "error"
    /\ endTimeSet
    /\ finalSummary.totalRounds = 2
    /\ Len(responses) = 4
    /\ transcripts = <<>>

\* C14: after a loop-level failure the caller obtains the session, in status
\* error, with its end time and its records.
C14_CallerObtainsErrorSession ==
    (sessionExists /\ status = "error") => (callerObtainsSession /\ endTimeSet)

\* C15: a session returned to the caller has status consensus or max_rounds
\* (or error), every transcript written carries one of these statuses, and the
\* summary is generated from a session whose status is one of them.
C15_RunningNeverObserved ==
    /\ callerObtainsSession => status \in {"consensus", "max_rounds", "error"}
    /\ \A i \in 1..Len(transcripts) :
            transcripts[i].status \in {"consensus", "max_rounds", "error"}
    /\ pc \in {"save", "returned"} =>
            /\ status \in {"consensus", "max_rounds"}
            /\ finalSummary.statusLine =
                   (IF status = "consensus" THEN "consensus reached" ELSE "max rounds reached")

\* a run without consensus has returned and its transcript says max_rounds
C15_Witness ==
    /\ callerObtainsSession
    /\ status = "max_rounds"
    /\ Len(transcripts) = 1
    /\ transcripts[1].status = "max_rounds"
    /\ finalSummary.statusLine = "max rounds reached"

\* the roster position and the round of the k-th agent call of a run that
\* calls every roster member once per round, in roster order
PositionOfCall(k) == ((k - 1) % RosterSize) + 1

RoundOfCall(k) == ((k - 1) \div RosterSize) + 1

\* C16: every agent call yields exactly one record; the k-th record is that of
\* roster position ((k-1) mod rosterSize)+1 in round ((k-1) div rosterSize)+1,
\* failed or not, and the call in progress is the one for the next position.
\* So in each round every roster agent is called exactly once, in roster order.
C16_OncePerRoundInOrder ==
    /\ calls = Len(responses) + Len(inflight)
    /\ RosterSize = 0 => calls = 0
    /\ RosterSize > 0 =>
        /\ \A k \in 1..Len(responses) :
            /\ responses[k].agent = agents[PositionOfCall(k)].name
            /\ responses[k].round = RoundOfCall(k)
        /\ \A i \in 1..Len(inflight) :
            inflight[i] = [round |-> RoundOfCall(Len(responses) + i),
                           pos |-> PositionOfCall(Len(responses) + i)]
        /\ calls <= roundsRun * RosterSize

\* round 1 of three agents is over: the first call failed, the two others
\* answered, three calls were made
C16_Witness ==
    /\ RosterSize = 3
    /\ pc = "round"
    /\ round = 2
    /\ calls = 3
    /\ IsFailureRecord(responses[1])
    /\ responses[2].agent = agents[2].name
    /\ responses[3].agent = agents[3].name

IsAllTrueRound(r) == Len(RoundRecords(r)) = RosterSize /\ AllVotedYes(RoundRecords(r))

\* the first round whose votes are all true, or else maxRounds
ExpectedFinalRound ==
    IF \E r \in 1..maxRounds : IsAllTrueRound(r)
    THEN CHOOSE r \in 1..maxRounds :
            IsAllTrueRound(r) /\ \A q \in 1..(r - 1) : ~IsAllTrueRound(q)
    ELSE maxRounds

\* C17: once the status is consensus no agent is being or will be called (the
\* loop has been left) and the log holds rosterSize x round records; a run that
\* returns holds exactly rosterSize x finalRound records, from as many calls,
\* finalRound being the first all-true round or else maxRounds.
C17_StopsAtFirstConsensus ==
    /\ status = "consensus" =>
        /\ pc \in {"after", "save", "returned"}
        /\ inflight = <<>>
        /\ Len(responses) = RosterSize * round
        /\ round = ExpectedFinalRound
    /\ callerObtainsSession =>
        /\ Len(responses) = RosterSize * ExpectedFinalRound
        /\ calls = RosterSize * ExpectedFinalRound
        /\ roundsRun = ExpectedFinalRound

\* three agents, round limit 2, all agree in round 1: three records
C17_Witness ==
    /\ callerObtainsSession
    /\ RosterSize = 3
    /\ maxRounds = 2
    /\ status = "consensus"
    /\ Len(responses) = 3
    /\ calls = 3

TerminalStatus == status \in {"consensus", "max_rounds", "error"}

\* C18: a run whose task passes validation reaches a terminal status, and at
\* no time has it made more than maxRounds x rosterSize agent calls.
C18_Terminates ==
    /\ [](calls <= maxRounds * RosterSize)
    /\ (pc = "entry" /\ ~taskRejected(variant, task)) ~> (TerminalStatus /\ endTimeSet)

\* the round limit was exhausted with every call made
C18_Witness ==
    /\ status = "max_rounds"
    /\ endTimeSet
    /\ RosterSize = 2
    /\ maxRounds = 2
    /\ calls = 4

IsPrefix(a, b) == Len(a) <= Len(b) /\ SubSeq(b, 1, Len(a)) = a

\* C19: every step leaves the log as it was or extends it at the end, and at
\* all times the records are in round order and, inside a round, in roster
\* order (the k-th record of a round is that of the k-th roster agent).
C19_AppendOnlyOrdered ==
    /\ [](/\ \A i, j \in 1..Len(responses) :
                i < j => responses[i].round <= responses[j].round
          /\ \A r \in 1..maxRounds : \A k \in 1..Len(RoundRecords(r)) :
                k <= RosterSize /\ RoundRecords(r)[k].agent = agents[k].name)
    /\ [][IsPrefix(responses, responses')]_vars

\* two agents, the log holds rounds 1 and 2 in order
C19_Witness ==
    /\ RosterSize = 2
    /\ Len(responses) = 4
    /\ responses[2].round = 1
    /\ responses[3].round = 2
    /\ responses[3].agent = agents[1].name

\* the roster with the persona of agent j replaced
PersonaVariants == {<<"another persona">>, <<>>}

RosterWithPersona(j, p) == [agents EXCEPT ![j].persona = p]

\* C20: the task prompt and the system prompt built for the agent being called
\* are the same as those built from a roster that differs only in the persona
\* of another agent (same task, round and record log); the system prompt
\* carries the agent's own persona.
C20_PersonasPrivate ==
    pc = "invoking" =>
        /\ prompt.system.persona = agents[idx].persona
        /\ \A j \in (1..RosterSize) \ {idx} : \A p \in PersonaVariants :
            LET other == RosterWithPersona(j, p)
            IN  /\ prompt.user =
                       buildAgentPrompt(other[idx], sessionTask, round, responses, other)
                /\ prompt.system = buildSystemPrompt(other[idx], other)

\* the second of three agents is being called in round 2
C20_Witness ==
    /\ pc = "invoking"
    /\ RosterSize = 3
    /\ idx = 2
    /\ round = 2
    /\ Len(prompt.user.partners) = 2
    /\ prompt.system.persona = <<"persona of ", "Engineer">>

\* C21: the text displayed for a record in a history contains no vote marker,
\* whatever the record's content.
C21_HistoryHasNoMarker ==
    rendered.done => ~HasMarker(rendered.text)

\* the characters of a text, its tokens joined
RECURSIVE Flatten(_, _)
Flatten(s, k) == IF k > Len(s) THEN "" ELSE s[k] \o Flatten(s, k + 1)

\* the first n characters of a string
FirstChars(str, n) == IF Len(str) <= n THEN str ELSE SubSeq(str, 1, n)

\* C22: the displayed text is the stripped and trimmed content in full when
\* that has at most 800 characters, and otherwise its first 800 characters
\* followed by "..."; so it ends in an appended "..." iff it was cut.
C22_PreviewCut ==
    rendered.done =>
        LET full == Flatten(cleanContent(text), 1)
            out == Flatten(rendered.text, 1)
        IN  /\ Len(full) <= 800 => out = full
            /\ Len(full) > 800 => out = FirstChars(full, 800) \o "..."
            /\ (Len(out) > Len(FirstChars(full, 800))) <=> (Len(full) > 800)

\* a content of 801 characters after trimming: the cut falls inside the second
\* long piece
C22_Witness ==
    /\ rendered.done
    /\ text = <<" ", "a", X400, X400, " ">>
    /\ rendered.text = <<"a", X400, X399, "...">>

SameLetter(a, b) ==
    a = b \/ \E i \in 1..26 :
                {a, b} = {SubSeq(UpperLetters, i, i), SubSeq(LowerLetters, i, i)}

\* the identifier starts with the prefix, letter case ignored
HasPrefixIgnoringCase(id, prefix) ==
    /\ Len(id) >= Len(prefix)
    /\ \A i \in 1..Len(prefix) : SameLetter(SubSeq(id, i, i), SubSeq(prefix, i, i))

\* the backend table of the documentation
ExpectedBackend(id) ==
    IF id = "" \/ \E p \in {"claude", "anthropic/"} : HasPrefixIgnoringCase(id, p)
    THEN "claude"
    ELSE IF \E p \in {"gemini-", "google/"} : HasPrefixIgnoringCase(id, p)
    THEN "gemini"
    ELSE IF \E p \in {"gpt-", "o1", "o3", "o4", "azure/"} : HasPrefixIgnoringCase(id, p)
    THEN "codex"
    ELSE "opencode"

C24_ConfiguredTimeout ==
    \A i \in 1..Len(invocations) :
        invocations[i].timeoutMs = (IF timeoutMs.set THEN timeoutMs.ms ELSE 300000)

\* C25: no step of Council.run changes the configuration: roster, round limit,
\* working directory and timeout are as they were.
C25_ConfigNeverMutated ==
    [][/\ agents' = agents
       /\ maxRounds' = maxRounds
       /\ projectDir' = projectDir
       /\ timeoutMs' = timeoutMs]_vars

\* a run of three agents over two rounds has returned
C25_Witness ==
    /\ callerObtainsSession
    /\ agents = [i \in 1..3 |-> AgentAt(i)]
    /\ maxRounds = 2
    /\ calls = 6

\* C26: the rounds executed are numbered 1, 2, 3, ... without a gap; the round
\* counter never decreases and changes by one at a time; inside a round it lies
\* in 1..maxRounds, and so does the round number of every record.
C26_RoundCounter ==
    /\ [](/\ pc \in {"agent", "invoking"} => round \in 1..maxRounds
          /\ roundsRun <= maxRounds
          /\ \A k \in 1..Len(responses) : responses[k].round \in 1..maxRounds)
    /\ [][/\ round' \in {round, round + 1}
          /\ (roundsRun' # roundsRun) => (roundsRun' = roundsRun + 1 /\ round' = roundsRun')
          /\ (pc = "entry" /\ pc' = "round") => round' = 1]_vars

\* two agents are in their third and last round
C26_Witness ==
    /\ pc = "agent"
    /\ round = 3
    /\ maxRounds = 3
    /\ RosterSize = 2
    /\ Len(responses) = 5
    /\ responses[5].round = 3

\* C27: a session with status consensus holds at least one record whose vote
\* is true, from at least one agent call, whatever the roster.
C27_ConsensusNeedsAVote ==
    status = "consensus" =>
        (calls >= 1 /\ \E k \in 1..Len(responses) : responses[k].consensus = TRUE)

\* C28: the round limit of the configuration a command-line run hands to the
\* Council is the value of --max-rounds when the flag is passed, else the
\* maxRounds of the configuration file when one is given, else 15.
C28_CliRoundLimit ==
    (cli.pc # "idle" /\ cli.resolved) =>
        maxRounds = (IF cli.flag # "" THEN parseInt(cli.flag)
                     ELSE IF cli.file.given THEN cli.file.maxRounds
                     ELSE 15)

\* C29 as stated: the exit code is 0 exactly when run returned a session with
\* status consensus.
C29_ExitZeroIffConsensus ==
    (cli.pc = "exited") =>
        (cli.exit = 0 <=> (callerObtainsSession /\ status = "consensus"))

\* C29: the exit code is 0 exactly when run returned a session with status
\* consensus and the result file, if asked for, was written; it is 1 in every
\* other case, and with a missing working directory no agent is invoked.
C29_ExitCode ==
    (cli.pc = "exited") =>
        /\ cli.exit \in {0, 1}
        /\ cli.exit = 0 <=> (/\ callerObtainsSession
                             /\ status = "consensus"
                             /\ cli.output # "unwritable")
        /\ (callerObtainsSession /\ status = "max_rounds") => cli.exit = 1
        /\ callerObtainsException => cli.exit = 1
        /\ (cli.resolved /\ ~existsSync(projectDir)) =>
               (cli.exit = 1 /\ invocations = <<>> /\ calls = 0 /\ ~sessionExists)

\* two agents agreed, the result was written, the process exited with 0
C29_Witness ==
    /\ cli.pc = "exited"
    /\ cli.exit = 0
    /\ cli.written
    /\ status = "consensus"
    /\ Len(invocations) = 2

\* the positions of the log at which the given command was issued
Issued(cmd) == {i \in 1..Len(skill.log) : skill.log[i].args[1] = cmd}

\* start, then send, then stop, each at most once and for the one session name
SkillOrdered ==
    /\ Issued("session-start") \subseteq {1}
    /\ Issued("session-send") \subseteq {2}
    /\ Issued("session-stop") \subseteq {3}
    /\ \A i \in 1..Len(skill.log) : skill.log[i].args[2] = skill.name

SkillDone == skill.pc \in {"returned", "thrown"}

\* C30 as stated: the commands are issued in the order start, send, stop, and
\* whenever session-start was issued without a spawn error, session-stop has
\* been issued exactly once when the function returns or throws.
C30_StopWheneverStarted ==
    (skill.pc # "idle") =>
        /\ SkillOrdered
        /\ (SkillDone /\ ~skill.started.error) => Issued("session-stop") = {3}

\* C30: the commands are issued in the order start, send, stop; session-send
\* is issued only after a session-start that succeeded (no spawn error and, in
\* v2.1, no 'error' in its stderr); after such a start session-stop has been issued
\* exactly once when the function returns or throws, whether or not the send
\* succeeded; after a start that failed neither send nor stop is issued.
C30_StopAfterSuccessfulStart ==
    (skill.pc # "idle") =>
        /\ SkillOrdered
        /\ Issued("session-send") # {} => ~startFailed(skill.version, skill.started)
        /\ (SkillDone /\ ~startFailed(skill.version, skill.started)) =>
               (Issued("session-send") = {2} /\ Issued("session-stop") = {3})
        /\ (SkillDone /\ startFailed(skill.version, skill.started)) =>
               (skill.pc = "thrown" /\ Len(skill.log) = 1)

\* the send failed after a successful start, the session was stopped and the
\* error rethrown
C30_Witness ==
    /\ skill.pc = "thrown"
    /\ skill.sendThrew
    /\ ~startFailed(skill.version, skill.started)
    /\ Len(skill.log) = 3
    /\ skill.log[3].args = <<"session-stop", skill.name>>

\* the positions of a transcript body that hold round headings, and those
\* that hold records
HeadingPositions(body) == {p \in 1..Len(body) : body[p].kind = "round"}

EntryPositions(body) == {p \in 1..Len(body) : body[p].kind = "entry"}

\* the position of the k-th record of a transcript body
EntryPosition(body, k) ==
    CHOOSE p \in EntryPositions(body) :
        Cardinality({q \in EntryPositions(body) : q <= p}) = k

\* the heading a position stands under: the last heading before it
HeadingOf(body, p) ==
    CHOOSE h \in HeadingPositions(body) :
        h < p /\ \A g \in HeadingPositions(body) : g < p => g <= h

\* every record of the log is in the transcript, in log order, under the
\* heading of its round; the headings are the rounds that have records, each
\* once, ascending
TranscriptComplete(tr) ==
    /\ Cardinality(EntryPositions(tr.body)) = Len(responses)
    /\ \A k \in 1..Len(responses) :
          LET p == EntryPosition(tr.body, k)
          IN  /\ tr.body[p].agent = responses[k].agent
              /\ tr.body[p].content = responses[k].content
              /\ \E h \in HeadingPositions(tr.body) : h < p
              /\ tr.body[HeadingOf(tr.body, p)].round = responses[k].round
    /\ \A g, h \in HeadingPositions(tr.body) :
          g < h => tr.body[g].round < tr.body[h].round
    /\ {tr.body[h].round : h \in HeadingPositions(tr.body)}
          = {responses[k].round : k \in 1..Len(responses)}

C32_SummaryOfFinalRound ==
    (callerObtainsSession /\ status \in {"consensus", "max_rounds"}) =>
        /\ finalSummary.totalRounds = roundsRun
        /\ Len(finalSummary.members) = RosterSize
        /\ Len(RoundRecords(roundsRun)) = RosterSize
        /\ \A i \in 1..RosterSize :
              /\ finalSummary.members[i].agent = agents[i].name
              /\ finalSummary.members[i].agent = RoundRecords(roundsRun)[i].agent
              /\ finalSummary.members[i].consensus = RoundRecords(roundsRun)[i].consensus

\* the roster without the agent at position i, in roster order
RosterWithout(i) ==
    [j \in 1..(RosterSize - 1) |-> IF j < i THEN agents[j] ELSE agents[j + 1]]

\* C33: the partner list of the prompt built for the agent at position idx is
\* the roster with that position removed, in roster order (rosterSize - 1
\* entries), whatever the names of the roster are.
C33_PartnersAreTheOthers ==
    (pc = "invoking") =>
        /\ Len(prompt.user.partners) = RosterSize - 1
        /\ \A j \in 1..Len(prompt.user.partners) :
              /\ j <= RosterSize - 1
              /\ prompt.user.partners[j].name = RosterWithout(idx)[j].name
              /\ prompt.user.partners[j].emoji = RosterWithout(idx)[j].emoji

IsPrefixOf(s, t) == Len(s) <= Len(t) /\ \A k \in 1..Len(s) : s[k] = t[k]

SecondRunEnded == twin.stage = "second" /\ pc \in {"returned", "thrown"}

\* at every step of the second run its records and its prompts are those of
\* the first run so far
SecondRunFollowsFirst ==
    (twin.stage = "second") =>
        /\ IsPrefixOf(responses, twin.first.responses)
        /\ IsPrefixOf(promptsSoFar, twin.first.prompts)

====
